---- MODULE Spec2Model ----
(***************************************************************************)
(* Memoized minimax for tic-tac-toe (src/create_task.py).                  *)
(*                                                                         *)
(* The board is the 2D list Board.board, indexed 0..2 x 0..2 as in the     *)
(* source.  A cell is None, "X" (Player.CPU.value) or "O"                  *)
(* (Player.HUMAN.value).  memo is the module-level dict of the source: a   *)
(* function from immutable keys (3-tuples of 3-tuples) to scores.          *)
(*                                                                         *)
(* Scores: the source computes 100/depth and -100/depth in floating point  *)
(* and only ever compares them.  For depth in 1..12 the float quotients    *)
(* are ordered exactly as the rationals, so a score s is represented by    *)
(* the integer s * 27720 (27720 = lcm(1..12)), exact up to depth 12.       *)
(***************************************************************************)
EXTENDS Integers, Sequences, FiniteSets, TLC

VARIABLES
  board,   \* Board.board of the one Board object
  memo,    \* the module-level dict memo
  pc,      \* position of the driver (or "api" for a bare Board under test)
  stack,   \* the active minimax frames, outermost first
  ret,     \* the value returned by the call that completed last
  top,     \* the locals of the depth-1 minimax frame that completed last
  call     \* the Board method called last: its name, arguments and the key before it

vars == <<board, memo, pc, stack, ret, top, call>>

----------------------------------------------------------------------------
(* Enumerations *)

None == "None"
CPU == "X"
HUMAN == "O"
Players == {CPU, HUMAN}
Cells == {None, CPU, HUMAN}

CPU_WIN == "CPU Wins."
HUMAN_WIN == "Human Wins."
TIE == "Tied."
ONGOING == "Game is ongoing."

Idx == 0..2

----------------------------------------------------------------------------
(* class Board *)

EmptyBoard == [i \in Idx |-> [j \in Idx |-> None]]

\* range(len(board)) x range(len(board)) in the order of the nested loops
Coords == [k \in 1..9 |-> <<(k - 1) \div 3, (k - 1) % 3>>]

get_valid_moves(b) == SelectSeq(Coords, LAMBDA c : b[c[1]][c[2]] = None)

\* A set_tile without the occupied-cell test (a faulty variant)
set_tile_blind(b, i, j, player) ==
  [ret |-> TRUE, board |-> [b EXCEPT ![i][j] = player]]

\* set_tile: False on an occupied cell, else the mark is written
set_tile(b, i, j, player) ==
  IF b[i][j] # None
    THEN [ret |-> FALSE, board |-> b]
    ELSE [ret |-> TRUE, board |-> [b EXCEPT ![i][j] = player]]

\* A null_tile that transposes its coordinates (a faulty variant)
null_tile_swapped(b, i, j) ==
  [ret |-> TRUE, board |-> [b EXCEPT ![j][i] = None]]

\* null_tile: the cell is set to None whatever it held
null_tile(b, i, j) == [ret |-> TRUE, board |-> [b EXCEPT ![i][j] = None]]

\* A map_sum without the None test (a faulty variant)
map_sum_no_guard(iterable) ==
  Cardinality({k \in 1..Len(iterable) : iterable[k] = "O"})

\* map_sum: -1 when a None is present, else the number of O's
map_sum(iterable) ==
  IF \E k \in 1..Len(iterable) : iterable[k] = None
    THEN -1
    ELSE Cardinality({k \in 1..Len(iterable) : iterable[k] = "O"})

\* The lines in the order get_status inspects them: rows, columns,
\* diag_left, diag_right.
Rows(b) == << <<b[0][0], b[0][1], b[0][2]>>,
              <<b[1][0], b[1][1], b[1][2]>>,
              <<b[2][0], b[2][1], b[2][2]>> >>
Columns(b) == << <<b[0][0], b[1][0], b[2][0]>>,
                 <<b[0][1], b[1][1], b[2][1]>>,
                 <<b[0][2], b[1][2], b[2][2]>> >>
Diags(b) == << <<b[0][0], b[1][1], b[2][2]>>, <<b[0][2], b[1][1], b[2][0]>> >>
\* Line checks that skip the rows (a faulty variant)
Lines_no_rows(b) == Columns(b) \o Diags(b)

\* rows, then columns, then the two diagonals
Lines(b) == Rows(b) \o Columns(b) \o Diags(b)

\* The lines at which the row, column and diagonal checks would return
decided(lines) == {k \in 1..Len(lines) : map_sum(lines[k]) \in {0, 3}}

\* The first return taken by the row, column and diagonal checks, or None
\* when all eight lines fall through.
first_win(lines) ==
  LET d == decided(lines)
  IN  IF d = {} THEN None
      ELSE LET k == CHOOSE n \in d : \A l \in d : n <= l
           IN  IF map_sum(lines[k]) = 3 THEN HUMAN_WIN ELSE CPU_WIN

tied(b) == \A i \in Idx : \A k \in 1..3 : b[i][k - 1] # None

\* A get_status that tests the full grid first (a faulty variant)
get_status_tie_first(b) ==
  LET w == first_win(Lines(b))
  IN  IF tied(b) THEN TIE
      ELSE IF w # None THEN w
      ELSE ONGOING

\* get_status: the line checks, then the tie check, then ONGOING
get_status(b) ==
  LET w == first_win(Lines(b))
  IN  IF w # None THEN w
      ELSE IF tied(b) THEN TIE
      ELSE ONGOING

\* A key that takes the first row twice and leaves out the last (a faulty
\* variant)
to_immutable_key_two_rows(b) ==
  << <<b[0][0], b[0][1], b[0][2]>>,
     <<b[1][0], b[1][1], b[1][2]>>,
     <<b[0][0], b[0][1], b[0][2]>> >>

\* to_immutable_key: the three rows as a tuple of tuples
to_immutable_key(b) ==
  << <<b[0][0], b[0][1], b[0][2]>>,
     <<b[1][0], b[1][1], b[1][2]>>,
     <<b[2][0], b[2][1], b[2][2]>> >>

----------------------------------------------------------------------------
(* minimax: scores *)

\* float("inf"); every score lies strictly between -PosInf and PosInf
PosInf == 10000000
NegInf == -10000000

\* n / depth for n in {100, -100}, as the integer 27720 * n / depth
Quot(n, depth) == (n * 27720) \div depth

\* "no move": the None that the depth-1 frame returns when it tried no move
NoMove == <<>>
EmptyMemo == <<>>

\* A comparison that lets a later equal score win (a faulty variant)
BetterOrEqual(val, maximum) == val >= maximum

\* if val > maximum
Better(val, maximum) == val > maximum

\* A terminal score that ignores depth (a faulty variant)
terminal_value_flat(status, depth) ==
  IF status = HUMAN_WIN THEN Quot(-100, 1)
  ELSE IF status = CPU_WIN THEN Quot(100, 1)
  ELSE 0

\* Check winners, evaluate terminal state: the value returned for a
\* status other than ONGOING
terminal_value(status, depth) ==
  IF status = HUMAN_WIN THEN Quot(-100, depth)
  ELSE IF status = CPU_WIN THEN Quot(100, depth)
  ELSE 0

\* A recursive call made for the same mover again (a faulty variant)
NextPlayer_same(player) == player

\* the mover the recursive call is made for
NextPlayer(player) == IF player = HUMAN THEN CPU ELSE HUMAN

\* min and max exchanged between the players (a faulty variant)
Improves_swapped(player, result, acc) ==
  IF player = HUMAN THEN result > acc ELSE result < acc

\* minimum = min(minimum, result) / maximum = max(maximum, result):
\* whether min (for the human) or max (for the CPU) replaces acc by result
Improves(player, result, acc) ==
  IF player = HUMAN THEN result < acc ELSE result > acc

Start(player) == IF player = HUMAN THEN PosInf ELSE NegInf

----------------------------------------------------------------------------
(* minimax as one call: a call takes the board and the memo as it finds    *)
(* them and returns its value together with the board and the memo as it   *)
(* leaves them.                                                            *)

RECURSIVE minimax(_, _, _, _)
RECURSIVE top_loop(_, _, _, _, _, _, _)
RECURSIVE rec_loop(_, _, _, _, _, _, _)

\* for i,j in moves (depth == 1), from the k-th move on
top_loop(b, m, moves, k, maximum, move, move_scores) ==
  IF k > Len(moves)
    THEN [ret |-> move, board |-> b, memo |-> m,
          maximum |-> maximum, move_scores |-> move_scores]
    ELSE LET i == moves[k][1]
             j == moves[k][2]
             r == minimax(set_tile(b, i, j, CPU).board, m, 2, HUMAN)
             cleared == null_tile(r.board, i, j).board
             scores == (<<i, j>> :> r.ret) @@ move_scores
         IN  IF Better(r.ret, maximum)
               THEN top_loop(cleared, r.memo, moves, k + 1, r.ret, <<i, j>>, scores)
               ELSE top_loop(cleared, r.memo, moves, k + 1, maximum, move, scores)

\* for i,j in moves (depth > 1), from the k-th move on
\* A loop that takes im_key before the trial mark is placed (a faulty
\* variant)
RECURSIVE rec_loop_key_before(_, _, _, _, _, _, _)
rec_loop_key_before(b, m, depth, player, moves, k, acc) ==
  IF k > Len(moves)
    THEN [ret |-> acc, board |-> b, memo |-> m]
    ELSE LET i == moves[k][1]
             j == moves[k][2]
             placed == set_tile(b, i, j, player).board
             im_key == to_immutable_key(b)
             r == minimax(placed, m, depth + 1, NextPlayer(player))
             result == IF im_key \in DOMAIN m THEN m[im_key] ELSE r.ret
             m2 == IF im_key \in DOMAIN m THEN m
                   ELSE (im_key :> r.ret) @@ r.memo
         IN  IF Improves(player, result, acc)
               THEN rec_loop_key_before(b, m2, depth, player, moves, k + 1,
                                        result)
               ELSE rec_loop_key_before(b, m2, depth, player, moves, k + 1,
                                        acc)

rec_loop(b, m, depth, player, moves, k, acc) ==
  IF k > Len(moves)
    THEN [ret |-> acc, board |-> b, memo |-> m]
    ELSE LET i == moves[k][1]
             j == moves[k][2]
             placed == set_tile(b, i, j, player).board
             im_key == to_immutable_key(placed)
             r == minimax(placed, m, depth + 1, NextPlayer(player))
         IN  IF im_key \in DOMAIN m
               THEN IF Improves(player, m[im_key], acc)
                 THEN rec_loop(null_tile(placed, i, j).board, m,
                               depth, player, moves, k + 1, m[im_key])
                 ELSE rec_loop(null_tile(placed, i, j).board, m,
                               depth, player, moves, k + 1, acc)
               ELSE IF Improves(player, r.ret, acc)
                 THEN rec_loop(null_tile(r.board, i, j).board,
                               (im_key :> r.ret) @@ r.memo,
                               depth, player, moves, k + 1, r.ret)
                 ELSE rec_loop(null_tile(r.board, i, j).board,
                               (im_key :> r.ret) @@ r.memo,
                               depth, player, moves, k + 1, acc)

\* A minimax without the terminal check below depth 1 (a faulty variant)
minimax_no_terminal(b, m, depth, player) ==
  IF depth = 1
    THEN top_loop(b, m, get_valid_moves(b), 1, NegInf, NoMove, <<>>)
    ELSE rec_loop(b, m, depth, player, get_valid_moves(b), 1, Start(player))

minimax(b, m, depth, player) ==
  IF depth = 1
    THEN top_loop(b, m, get_valid_moves(b), 1, NegInf, NoMove, <<>>)
    ELSE LET status == get_status(b)
         IN  IF status \in {HUMAN_WIN, CPU_WIN, TIE}
               THEN [ret |-> terminal_value(status, depth),
                     board |-> b, memo |-> m]
               ELSE rec_loop(b, m, depth, player, get_valid_moves(b), 1,
                             Start(player))

----------------------------------------------------------------------------
(* The driver loop, with each minimax(board, 1, Player.CPU) as one step *)

NoCall == [op |-> "none", i |-> 0, j |-> 0, player |-> None,
           key |-> to_immutable_key(EmptyBoard)]
NoTop == [board0 |-> EmptyBoard, memo0 |-> EmptyMemo, move |-> NoMove,
          maximum |-> NegInf, move_scores |-> <<>>]

Init ==
  /\ board = EmptyBoard
  /\ memo = EmptyMemo
  /\ pc = "loop"
  /\ stack = <<>>
  /\ ret = TRUE
  /\ top = NoTop
  /\ call = NoCall

\* A human move without the test that leaves the loop (a faulty variant)
HumanMove_no_break ==
  /\ pc = "loop"
  /\ get_status(board) = ONGOING
  /\ \E k \in 1..Len(get_valid_moves(board)) :
       LET i == get_valid_moves(board)[k][1]
           j == get_valid_moves(board)[k][2]
       IN  /\ board' = set_tile(board, i, j, HUMAN).board
           /\ ret' = set_tile(board, i, j, HUMAN).ret
           /\ call' = [op |-> "set_tile", i |-> i, j |-> j, player |-> HUMAN,
                       key |-> to_immutable_key(board)]
  /\ pc' = "cpu"
  /\ UNCHANGED <<memo, stack, top>>

\* board.set_tile(*get_input(board), Player.HUMAN) and the test that follows
HumanMove ==
  /\ pc = "loop"
  /\ get_status(board) = ONGOING
  /\ \E k \in 1..Len(get_valid_moves(board)) :
       LET i == get_valid_moves(board)[k][1]
           j == get_valid_moves(board)[k][2]
       IN  /\ board' = set_tile(board, i, j, HUMAN).board
           /\ ret' = set_tile(board, i, j, HUMAN).ret
           /\ call' = [op |-> "set_tile", i |-> i, j |-> j, player |-> HUMAN,
                       key |-> to_immutable_key(board)]
  /\ pc' = (IF get_status(board') # ONGOING THEN "end" ELSE "cpu")
  /\ UNCHANGED <<memo, stack, top>>

\* A loop test that never ends the loop (a faulty variant)
LoopExit_never ==
  /\ pc = "loop"
  /\ get_status(board) # ONGOING
  /\ pc' = "loop"
  /\ UNCHANGED <<board, memo, stack, ret, top, call>>

\* while board.get_status() == Status.ONGOING fails
LoopExit ==
  /\ pc = "loop"
  /\ get_status(board) # ONGOING
  /\ pc' = "end"
  /\ UNCHANGED <<board, memo, stack, ret, top, call>>

\* minimax(board, 1, Player.CPU), evaluated before the set_tile that uses it
CpuSearch ==
  /\ pc = "cpu"
  /\ LET r == minimax(board, memo, 1, CPU)
     IN  /\ board' = r.board
         /\ memo' = r.memo
         /\ top' = [board0 |-> board, memo0 |-> memo, move |-> r.ret,
                    maximum |-> r.maximum, move_scores |-> r.move_scores]
  /\ pc' = "place"
  /\ UNCHANGED <<stack, ret, call>>

\* board.set_tile(*move, Player.CPU); unpacking None raises TypeError
CpuPlace ==
  /\ pc = "place"
  /\ IF top.move = NoMove
       THEN /\ pc' = "TypeError"
            /\ UNCHANGED <<board, ret, call>>
       ELSE /\ board' = set_tile(board, top.move[1], top.move[2], CPU).board
            /\ ret' = set_tile(board, top.move[1], top.move[2], CPU).ret
            /\ call' = [op |-> "set_tile", i |-> top.move[1], j |-> top.move[2],
                        player |-> CPU, key |-> to_immutable_key(board)]
            /\ pc' = "loop"
  /\ UNCHANGED <<memo, stack, top>>

Next == HumanMove \/ LoopExit \/ CpuSearch \/ CpuPlace

Spec == Init /\ [][Next]_vars

----------------------------------------------------------------------------
(* minimax step by step: stack holds one record per active call.  Fields:  *)
(*   depth, player   the arguments                                         *)
(*   at              "enter"   called, nothing executed yet                *)
(*                   "loop"    at the head of for i,j in moves, move k next *)
(*                   "placed"  set_tile(i, j, ...) of move k done          *)
(*                   "wait"    the recursive call for move k is running    *)
(*                   "back"    that call has returned result               *)
(*   moves, k        the list iterated and the index of the current move   *)
(*   acc             maximum (depth 1, CPU) or minimum (HUMAN)             *)
(*   move, move_scores   locals of the depth-1 frame                       *)
(*   result          the value the recursive call returned                 *)
(*   taken           the branches by which this frame got its results so   *)
(*                   far: "memo" (result = memo[im_key]) and "call"        *)
(*                   (result = minimax(...))                               *)
(*   board0          the board as it was when the call started             *)

Frame(depth, player, b) ==
  [depth |-> depth, player |-> player, at |-> "enter",
   moves |-> <<>>, k |-> 1, acc |-> Start(player),
   move |-> NoMove, move_scores |-> <<>>, result |-> 0, taken |-> {},
   board0 |-> b]

Cur == stack[Len(stack)]
SetCur(f) == [stack EXCEPT ![Len(stack)] = f]
Searching == pc = "search" /\ stack # <<>>

\* minimax(board, 1, Player.CPU) is called
CpuCall ==
  /\ pc = "cpu"
  /\ pc' = "search"
  /\ stack' = <<Frame(1, CPU, board)>>
  /\ top' = [NoTop EXCEPT !.board0 = board, !.memo0 = memo]
  /\ UNCHANGED <<board, memo, ret, call>>

\* depth == 1: moves = board.get_valid_moves(), maximum = float("-inf")
EnterTop ==
  /\ Searching
  /\ Cur.at = "enter"
  /\ Cur.depth = 1
  /\ stack' = SetCur([Cur EXCEPT !.at = "loop",
                                 !.moves = get_valid_moves(board)])
  /\ UNCHANGED <<board, memo, pc, ret, top, call>>

\* the callee returns value v: its frame is popped and the caller has v
Deliver(v) ==
  [k \in 1..Len(stack) - 1 |->
     IF k = Len(stack) - 1
       THEN [stack[k] EXCEPT !.at = "back", !.result = v]
       ELSE stack[k]]

\* depth > 1 on a decided board: return -100/depth, 100/depth or 0
ReturnTerminal ==
  /\ Searching
  /\ Cur.at = "enter"
  /\ Cur.depth > 1
  /\ get_status(board) \in {HUMAN_WIN, CPU_WIN, TIE}
  /\ stack' = Deliver(terminal_value(get_status(board), Cur.depth))
  /\ UNCHANGED <<board, memo, pc, ret, top, call>>

\* depth > 1 on an undecided board: minimum / maximum and moves are set
EnterLoop ==
  /\ Searching
  /\ Cur.at = "enter"
  /\ Cur.depth > 1
  /\ get_status(board) \notin {HUMAN_WIN, CPU_WIN, TIE}
  /\ stack' = SetCur([Cur EXCEPT !.at = "loop",
                                 !.moves = get_valid_moves(board)])
  /\ UNCHANGED <<board, memo, pc, ret, top, call>>

\* board.set_tile(i, j, player) for the next move of the loop
Place ==
  /\ Searching
  /\ Cur.at = "loop"
  /\ Cur.k <= Len(Cur.moves)
  /\ LET i == Cur.moves[Cur.k][1]
         j == Cur.moves[Cur.k][2]
     IN  /\ board' = set_tile(board, i, j, Cur.player).board
         /\ ret' = set_tile(board, i, j, Cur.player).ret
         /\ call' = [op |-> "set_tile", i |-> i, j |-> j,
                     player |-> Cur.player, key |-> to_immutable_key(board)]
  /\ stack' = SetCur([Cur EXCEPT !.at = "placed"])
  /\ UNCHANGED <<memo, pc, top>>

\* A depth-1 frame that takes the score of a candidate from the cache when
\* the key is there (a faulty variant)
CallTop_cached ==
  /\ Searching
  /\ Cur.at = "placed"
  /\ Cur.depth = 1
  /\ stack' = IF to_immutable_key(board) \in DOMAIN memo
                THEN SetCur([Cur EXCEPT !.at = "back",
                               !.result = memo[to_immutable_key(board)]])
                ELSE Append(SetCur([Cur EXCEPT !.at = "wait"]),
                            Frame(2, HUMAN, board))
  /\ UNCHANGED <<board, memo, pc, ret, top, call>>

\* depth == 1: val = minimax(board, depth+1, Player.HUMAN), never memoized
CallTop ==
  /\ Searching
  /\ Cur.at = "placed"
  /\ Cur.depth = 1
  /\ stack' = Append(SetCur([Cur EXCEPT !.at = "wait"]),
                     Frame(2, HUMAN, board))
  /\ UNCHANGED <<board, memo, pc, ret, top, call>>

\* the new accumulator after result
Update(f, result) ==
  IF Improves(f.player, result, f.acc) THEN result ELSE f.acc

\* A cache-hit branch that leaves the trial mark on the board (a faulty
\* variant)
Hit_no_clear ==
  /\ Searching
  /\ Cur.at = "placed"
  /\ Cur.depth > 1
  /\ to_immutable_key(board) \in DOMAIN memo
  /\ stack' = SetCur([Cur EXCEPT !.at = "loop", !.k = @ + 1,
                                 !.result = memo[to_immutable_key(board)],
                                 !.taken = @ \cup {"memo"},
                                 !.acc = Update(Cur,
                                           memo[to_immutable_key(board)])])
  /\ UNCHANGED <<board, memo, pc, ret, top, call>>

\* if im_key in memo: result = memo[im_key]; min / max; board.null_tile(i,j)
Hit ==
  /\ Searching
  /\ Cur.at = "placed"
  /\ Cur.depth > 1
  /\ to_immutable_key(board) \in DOMAIN memo
  /\ LET i == Cur.moves[Cur.k][1]
         j == Cur.moves[Cur.k][2]
         result == memo[to_immutable_key(board)]
     IN  /\ board' = null_tile(board, i, j).board
         /\ ret' = null_tile(board, i, j).ret
         /\ call' = [op |-> "null_tile", i |-> i, j |-> j, player |-> None,
                     key |-> to_immutable_key(board)]
         /\ stack' = SetCur([Cur EXCEPT !.at = "loop", !.k = @ + 1,
                                        !.result = result,
                                        !.taken = @ \cup {"memo"},
                                        !.acc = Update(Cur, result)])
  /\ UNCHANGED <<memo, pc, top>>

\* else: result = minimax(board, depth+1, the other player)
Miss ==
  /\ Searching
  /\ Cur.at = "placed"
  /\ Cur.depth > 1
  /\ to_immutable_key(board) \notin DOMAIN memo
  /\ stack' = Append(SetCur([Cur EXCEPT !.at = "wait"]),
                     Frame(Cur.depth + 1, NextPlayer(Cur.player), board))
  /\ UNCHANGED <<board, memo, pc, ret, top, call>>

\* A return from the recursive call that starts the cache afresh with the
\* new entry (a faulty variant)
Resume_evict ==
  /\ Searching
  /\ Cur.at = "back"
  /\ Cur.depth > 1
  /\ memo' = (to_immutable_key(board) :> Cur.result)
  /\ board' = null_tile(board, Cur.moves[Cur.k][1], Cur.moves[Cur.k][2]).board
  /\ stack' = SetCur([Cur EXCEPT !.at = "loop", !.k = @ + 1,
                                 !.taken = @ \cup {"call"},
                                 !.acc = Update(Cur, Cur.result)])
  /\ UNCHANGED <<pc, ret, top, call>>

\* depth > 1, after the recursive call: memo[im_key] = result; min / max;
\* board.null_tile(i,j)
Resume ==
  /\ Searching
  /\ Cur.at = "back"
  /\ Cur.depth > 1
  /\ LET i == Cur.moves[Cur.k][1]
         j == Cur.moves[Cur.k][2]
     IN  /\ memo' = (to_immutable_key(board) :> Cur.result) @@ memo
         /\ board' = null_tile(board, i, j).board
         /\ ret' = null_tile(board, i, j).ret
         /\ call' = [op |-> "null_tile", i |-> i, j |-> j, player |-> None,
                     key |-> to_immutable_key(board)]
         /\ stack' = SetCur([Cur EXCEPT !.at = "loop", !.k = @ + 1,
                                        !.taken = @ \cup {"call"},
                                        !.acc = Update(Cur, Cur.result)])
  /\ UNCHANGED <<pc, top>>

\* depth == 1, after the recursive call: board.null_tile(i,j);
\* move_scores[(i,j)] = val; if val > maximum: maximum = val; move = (i,j)
ResumeTop ==
  /\ Searching
  /\ Cur.at = "back"
  /\ Cur.depth = 1
  /\ LET i == Cur.moves[Cur.k][1]
         j == Cur.moves[Cur.k][2]
         val == Cur.result
     IN  /\ board' = null_tile(board, i, j).board
         /\ ret' = null_tile(board, i, j).ret
         /\ call' = [op |-> "null_tile", i |-> i, j |-> j, player |-> None,
                     key |-> to_immutable_key(board)]
         /\ stack' = SetCur(
              [Cur EXCEPT !.at = "loop", !.k = @ + 1,
                 !.taken = @ \cup {"call"},
                 !.move_scores = (<<i, j>> :> val) @@ @,
                 !.acc = IF Better(val, Cur.acc) THEN val ELSE @,
                 !.move = IF Better(val, Cur.acc) THEN <<i, j>> ELSE @])
  /\ UNCHANGED <<memo, pc, top>>

\* depth > 1, the loop is over: return minimum / return maximum
ReturnLoop ==
  /\ Searching
  /\ Cur.at = "loop"
  /\ Cur.k > Len(Cur.moves)
  /\ Cur.depth > 1
  /\ stack' = Deliver(Cur.acc)
  /\ UNCHANGED <<board, memo, pc, ret, top, call>>

\* depth == 1, the loop is over: return move
ReturnTop ==
  /\ Searching
  /\ Cur.at = "loop"
  /\ Cur.k > Len(Cur.moves)
  /\ Cur.depth = 1
  /\ stack' = <<>>
  /\ top' = [top EXCEPT !.move = Cur.move, !.maximum = Cur.acc,
                        !.move_scores = Cur.move_scores]
  /\ pc' = "place"
  /\ UNCHANGED <<board, memo, ret, call>>

NextSteps ==
  \/ HumanMove \/ LoopExit \/ CpuCall \/ CpuPlace
  \/ EnterTop \/ ReturnTerminal \/ EnterLoop \/ Place \/ CallTop
  \/ Hit \/ Miss \/ Resume \/ ResumeTop \/ ReturnLoop \/ ReturnTop

SpecSteps == Init /\ [][NextSteps]_vars

\* The program with each call minimax(board, 1, Player.CPU) of the driver
\* taken either as one step or statement by statement
NextMixed == NextSteps \/ CpuSearch

SpecMixed == Init /\ [][NextMixed]_vars

\* The program under fairness.  The first search of a game is followed
\* statement by statement when the human opened on one of the first
\* MaxStepped cells in row-major order; every other search is one step.
MaxStepped == 1

SteppedCall ==
  /\ Len(get_valid_moves(board)) = 8
  /\ \E k \in 1..MaxStepped : board[Coords[k][1]][Coords[k][2]] = HUMAN
  /\ CpuCall

NextStatements ==
  \/ HumanMove \/ LoopExit \/ CpuPlace \/ SteppedCall
  \/ EnterTop \/ ReturnTerminal \/ EnterLoop \/ Place \/ CallTop
  \/ Hit \/ Miss \/ Resume \/ ResumeTop \/ ReturnLoop \/ ReturnTop

NextLive == NextStatements \/ CpuSearch

\* The program is sequential: whenever a statement can be executed it is.
\* For the human move this is the assumption that get_input eventually
\* returns a valid move.  The one-step search is enabled exactly when
\* control is at the call (pc = "cpu") and leaves it, so weak fairness of
\* that step is the statement that control is infinitely often elsewhere.
SpecLive ==
  /\ Init /\ [][NextLive]_vars
  /\ WF_vars(NextStatements)
  /\ []<>(pc # "cpu")

----------------------------------------------------------------------------
(* A bare Board driven through its methods by an arbitrary caller *)

\* the caller stops placing marks once MaxMarks cells are occupied
MaxMarks == 3

Marks(b) == Cardinality({c \in Idx \X Idx : b[c[1]][c[2]] # None})

InitBoard ==
  /\ board = EmptyBoard
  /\ memo = EmptyMemo
  /\ pc = "api"
  /\ stack = <<>>
  /\ ret = TRUE
  /\ top = NoTop
  /\ call = NoCall

ApiSetTile ==
  /\ pc = "api"
  /\ \E i \in Idx, j \in Idx, player \in Players :
       /\ Marks(board) < MaxMarks \/ board[i][j] # None
       /\ board' = set_tile(board, i, j, player).board
       /\ ret' = set_tile(board, i, j, player).ret
       /\ call' = [op |-> "set_tile", i |-> i, j |-> j, player |-> player,
                   key |-> to_immutable_key(board)]
  /\ UNCHANGED <<memo, pc, stack, top>>

ApiNullTile ==
  /\ pc = "api"
  /\ \E i \in Idx, j \in Idx :
       /\ board' = null_tile(board, i, j).board
       /\ ret' = null_tile(board, i, j).ret
       /\ call' = [op |-> "null_tile", i |-> i, j |-> j, player |-> None,
                   key |-> to_immutable_key(board)]
  /\ UNCHANGED <<memo, pc, stack, top>>

NextBoard == ApiSetTile \/ ApiNullTile

SpecBoard == InitBoard /\ [][NextBoard]_vars

----------------------------------------------------------------------------
(* get_status applied to every grid of cell values *)

AllBoards == [Idx -> [Idx -> Cells]]

InitStatus ==
  /\ board \in AllBoards
  /\ memo = EmptyMemo
  /\ pc = "get_status"
  /\ stack = <<>>
  /\ ret = None
  /\ top = NoTop
  /\ call = NoCall

GetStatus ==
  /\ pc = "get_status"
  /\ ret' = get_status(board)
  /\ pc' = "returned"
  /\ UNCHANGED <<board, memo, stack, top, call>>

NextStatus == GetStatus

SpecStatus == InitStatus /\ [][NextStatus]_vars

----------------------------------------------------------------------------
(* map_sum applied to every list of cell values of length up to MaxLine,   *)
(* the two lists of test_program among them                                *)

MaxLine == 4

Iterables == UNION {[1..n -> Cells] : n \in 0..MaxLine}

InitSum ==
  /\ board = EmptyBoard
  /\ memo = EmptyMemo
  /\ pc = "map_sum"
  /\ stack = <<>>
  /\ ret = None
  /\ top = NoTop
  /\ call \in {[op |-> "map_sum", iterable |-> it] : it \in Iterables}

MapSum ==
  /\ pc = "map_sum"
  /\ ret' = map_sum(call.iterable)
  /\ pc' = "summed"
  /\ UNCHANGED <<board, memo, stack, top, call>>

NextSum == MapSum

SpecSum == InitSum /\ [][NextSum]_vars

----------------------------------------------------------------------------
(* minimax(board, 1, Player.CPU) called on a board that a caller has set   *)
(* up, with a fresh memo; play then goes on as in the driver loop.         *)

\* the boards set up have at most MaxEmpty empty cells (and at least one),
\* or are one of the two boards of the end-to-end scenarios
MaxEmpty == 4

\* [[X, X, _], [O, O, _], [_, _, _]]
RowToComplete ==
  [i \in Idx |-> [j \in Idx |->
     IF i = 0 /\ j < 2 THEN CPU ELSE IF i = 1 /\ j < 2 THEN HUMAN ELSE None]]

\* the marks on them are those of a game in which either side began
Count(b, p) == Cardinality({c \in Idx \X Idx : b[c[1]][c[2]] = p})

SetUpBoards ==
  {EmptyBoard, RowToComplete} \cup
  {b \in AllBoards : /\ 9 - Marks(b) \in 1..MaxEmpty
                     /\ Count(b, HUMAN) - Count(b, CPU) \in {0, 1}}

InitCall ==
  /\ board \in SetUpBoards
  /\ memo = EmptyMemo
  /\ pc = "cpu"
  /\ stack = <<>>
  /\ ret = TRUE
  /\ top = NoTop
  /\ call = NoCall

SpecCall == (Init \/ InitCall) /\ [][Next]_vars

----------------------------------------------------------------------------
(* minimax called below depth 1 on a board that is already decided: the    *)
(* arguments of the call are the frame on the stack, the cache is empty or *)
(* already holds some value under the key of the board.                    *)

\* the depths of the calls made this way are 2..MaxDepth
MaxDepth == 10

TerminalBoards == {b \in AllBoards : get_status(b) # ONGOING}

InitTerminal ==
  /\ board \in TerminalBoards
  /\ memo \in {EmptyMemo, to_immutable_key(board) :> 7}
  /\ \E depth \in 2..MaxDepth, player \in Players :
       stack = <<Frame(depth, player, board)>>
  /\ pc = "call"
  /\ ret = 0
  /\ top = NoTop
  /\ call = NoCall

\* ret = minimax(board, depth, player)
CallMinimax ==
  /\ pc = "call"
  /\ LET r == minimax(board, memo, Cur.depth, Cur.player)
     IN  /\ board' = r.board
         /\ memo' = r.memo
         /\ ret' = r.ret
  /\ pc' = "returned"
  /\ UNCHANGED <<stack, top, call>>

NextTerminal == CallMinimax

SpecTerminal == InitTerminal /\ [][NextTerminal]_vars

----------------------------------------------------------------------------
(* A board and the cache: some caller brings the board to a position,      *)
(* stores a score under its key as minimax does (memo[im_key] = result),   *)
(* and goes on calling set_tile and null_tile.  top.board0 keeps the board *)
(* as it was at the moment of the store and top.maximum the score stored.  *)

\* at most MaxTiles cells are occupied at any time
MaxTiles == 2

InitKeys ==
  /\ board = EmptyBoard
  /\ memo = EmptyMemo
  /\ pc = "keys"
  /\ stack = <<>>
  /\ ret = TRUE
  /\ top = NoTop
  /\ call = NoCall

KeySetTile ==
  /\ pc = "keys"
  /\ \E i \in Idx, j \in Idx, player \in Players :
       /\ Marks(board) < MaxTiles \/ board[i][j] # None
       /\ board' = set_tile(board, i, j, player).board
       /\ ret' = set_tile(board, i, j, player).ret
  /\ UNCHANGED <<memo, pc, stack, top, call>>

KeyNullTile ==
  /\ pc = "keys"
  /\ \E i \in Idx, j \in Idx :
       /\ board' = null_tile(board, i, j).board
       /\ ret' = null_tile(board, i, j).ret
  /\ UNCHANGED <<memo, pc, stack, top, call>>

\* im_key = board.to_immutable_key(); memo[im_key] = result, once
KeyStore ==
  /\ pc = "keys"
  /\ memo = EmptyMemo
  /\ LET result == Quot(100, Marks(board) + 1)
     IN  /\ memo' = (to_immutable_key(board) :> result) @@ memo
         /\ top' = [top EXCEPT !.board0 = board, !.maximum = result]
  /\ UNCHANGED <<board, pc, stack, ret, call>>

NextKeys == KeySetTile \/ KeyNullTile \/ KeyStore

SpecKeys == InitKeys /\ [][NextKeys]_vars

----------------------------------------------------------------------------
(* Properties *)

\* the cell a call record names, as a cell of board b
CellAt(b, c) == b[c.i][c.j]

\* b and b2 agree on every cell other than (i, j)
SameElsewhere(b, b2, i, j) ==
  \A r \in Idx, c \in Idx : (r # i \/ c # j) => b2[r][c] = b[r][c]

\* the eight lines of the grid as sets of coordinates
LineCells ==
  {{<<r, c>> : c \in Idx} : r \in Idx} \cup {{<<r, c>> : r \in Idx} : c \in Idx}
    \cup {{<<0, 0>>, <<1, 1>>, <<2, 2>>}, {<<0, 2>>, <<1, 1>>, <<2, 0>>}}
HasLine(b, p) == \E L \in LineCells : \A c \in L : b[c[1]][c[2]] = p
HasEmpty(b) == \E i \in Idx, j \in Idx : b[i][j] = None

\* C6: set_tile on an occupied cell returns False and changes no cell; on
\* an empty cell it returns True, sets that cell to the player's mark and
\* leaves the other eight cells as they were.
C6_SetTileStep ==
  call'.op = "set_tile" =>
    /\ call'.key = to_immutable_key(board)
    /\ IF CellAt(board, call') # None
         THEN ret' = FALSE /\ board' = board
         ELSE /\ ret' = TRUE
              /\ CellAt(board', call') = call'.player
              /\ SameElsewhere(board, board', call'.i, call'.j)
C6_SetTile == [][C6_SetTileStep]_vars

\* C6 witnesses: a set_tile refused on an occupied cell of a board that
\* holds both marks, after a set_tile that succeeded
C6_Witness ==
  /\ call.op = "set_tile"
  /\ ret = FALSE
  /\ CellAt(board, call) # None
  /\ CellAt(board, call) # call.player
  /\ Marks(board) >= 2

\* C7 as claimed: for any board, cell and mark, null_tile(r, c) right after
\* set_tile(r, c, m) leaves to_immutable_key() as it was before the two calls.
C7_Original ==
  [][(/\ call.op = "set_tile"
      /\ call'.op = "null_tile"
      /\ call'.i = call.i /\ call'.j = call.j)
     => to_immutable_key(board') = call.key]_vars

\* C7 amended: when the cell (r, c) is empty, so that set_tile(r, c, m)
\* returns True, null_tile(r, c) right after it leaves to_immutable_key()
\* as it was before the two calls.
C7_RoundTrip ==
  [][(/\ call.op = "set_tile"
      /\ ret = TRUE
      /\ call'.op = "null_tile"
      /\ call'.i = call.i /\ call'.j = call.j)
     => to_immutable_key(board') = call.key]_vars

\* C7 witness: a null_tile of the cell that the set_tile just before it
\* filled, on a board that holds other marks
C7_Witness ==
  /\ call.op = "null_tile"
  /\ call.key # to_immutable_key(board)
  /\ CellAt(board, call) = None
  /\ Marks(board) >= 2

\* the score of candidate c: the depth-2 evaluation, for the human mover,
\* of board b with the CPU mark placed on c, started with memo m
Depth2Score(b, m, c) ==
  minimax(set_tile(b, c[1], c[2], CPU).board, m, 2, HUMAN).ret

\* C1: on a board with an empty cell, minimax(board, 1, CPU) returns the
\* valid move whose depth-2 score is greatest, the first such move in
\* row-major order; so the least negative one when all scores are negative.
C1_ArgMaxFirst ==
  (pc = "place" /\ get_valid_moves(top.board0) # <<>>) =>
    LET moves == get_valid_moves(top.board0)
        score(k) == Depth2Score(top.board0, top.memo0, moves[k])
    IN  \E k \in 1..Len(moves) :
          /\ top.move = moves[k]
          /\ top.maximum = score(k)
          /\ \A l \in 1..Len(moves) :
               /\ top.move_scores[moves[l]] = score(l)
               /\ score(l) <= score(k)
               /\ l < k => score(l) < score(k)

\* C1 witness: on an ONGOING board every candidate's score is negative,
\* the scores differ, and the move returned is not the first candidate
C1_Witness ==
  /\ pc = "place"
  /\ get_status(top.board0) = ONGOING
  /\ LET moves == get_valid_moves(top.board0)
     IN  /\ Len(moves) >= 3
         /\ top.move # moves[1]
         /\ \A l \in 1..Len(moves) : top.move_scores[moves[l]] < 0
         /\ \E l \in 1..Len(moves) : top.move_scores[moves[l]] < top.maximum

\* C2: in every game of the driver loop the board never reaches HUMAN_WIN,
\* and the game ends in CPU_WIN or TIE.
C2_NeverHumanWin ==
  /\ get_status(board) # HUMAN_WIN
  /\ pc = "end" => get_status(board) \in {CPU_WIN, TIE}

\* C2 witness: a game played to a full board, which the loop has left
C2_Witness ==
  /\ pc = "end"
  /\ get_status(board) = TIE
  /\ DOMAIN memo # {}

\* placing the CPU mark on c completes a line of three CPU marks
WinsAtOnce(b, c) == HasLine(set_tile(b, c[1], c[2], CPU).board, CPU)

\* C3: on an ONGOING board on which some CPU placement completes a line at
\* once, whatever the memo holds, minimax(board, 1, CPU) returns the first
\* such cell in row-major order and its score is 100/2; on
\* [[X,X,_],[O,O,_],[_,_,_]] it returns (0, 2).
C3_TakesWin ==
  (pc = "place" /\ get_status(top.board0) = ONGOING) =>
    LET moves == get_valid_moves(top.board0)
        wins == {k \in 1..Len(moves) : WinsAtOnce(top.board0, moves[k])}
    IN  /\ wins # {} =>
             /\ top.move_scores[top.move] = Quot(100, 2)
             /\ \E k \in wins : /\ top.move = moves[k]
                                /\ \A l \in wins : k <= l
        /\ top.board0 = RowToComplete => top.move = <<0, 2>>

\* C3 witness: two cells win at once, neither is the first candidate, and
\* the memo was filled by an earlier search
C3_Witness ==
  /\ pc = "place"
  /\ get_status(top.board0) = ONGOING
  /\ DOMAIN top.memo0 # {}
  /\ LET moves == get_valid_moves(top.board0)
     IN  /\ ~WinsAtOnce(top.board0, moves[1])
         /\ Cardinality({k \in 1..Len(moves) :
                           WinsAtOnce(top.board0, moves[k])}) >= 2

Corners == {<<0, 0>>, <<0, 2>>, <<2, 0>>, <<2, 2>>}
Center == <<1, 1>>

\* C4: on the empty board with an empty memo, minimax(board, 1, CPU)
\* returns a corner or the center, and the score of that move is 0.
C4_EmptyBoard ==
  (pc = "place" /\ top.board0 = EmptyBoard /\ top.memo0 = EmptyMemo) =>
    /\ top.move \in Corners \cup {Center}
    /\ top.move_scores[top.move] = 0
    /\ Depth2Score(EmptyBoard, EmptyMemo, top.move) = 0

\* C4 witness: the search of the empty board has returned
C4_Witness ==
  /\ pc = "place"
  /\ top.board0 = EmptyBoard
  /\ top.memo0 = EmptyMemo
  /\ DOMAIN top.move_scores = {Coords[k] : k \in 1..9}

\* C8: get_status returns HUMAN_WIN only if some row, column or diagonal
\* holds three human marks, and CPU_WIN only if one holds three CPU marks;
\* a line with an empty cell never makes it report a win.
C8_WinNeedsLine ==
  pc = "returned" =>
    /\ ret = HUMAN_WIN => HasLine(board, HUMAN)
    /\ ret = CPU_WIN => HasLine(board, CPU)
    /\ (~HasLine(board, HUMAN) /\ ~HasLine(board, CPU))
         => ret \notin {HUMAN_WIN, CPU_WIN}

\* C8 witness: a win reported on a board that also has a line holding two
\* equal marks and an empty cell
C8_Witness ==
  /\ pc = "returned"
  /\ ret \in {HUMAN_WIN, CPU_WIN}
  /\ \E k \in 1..8, p \in Players :
       /\ \E n \in 1..3 : Lines(board)[k][n] = None
       /\ Cardinality({n \in 1..3 : Lines(board)[k][n] = p}) = 2

\* C10: get_status returns TIE exactly for the boards with no empty cell
\* and no line of three equal marks; a full board with a complete line is
\* a win of an owner of such a line; a board with an empty cell and no
\* complete line is ONGOING.
C10_TieExactly ==
  pc = "returned" =>
    /\ ret = TIE <=>
         (~HasEmpty(board) /\ ~HasLine(board, HUMAN) /\ ~HasLine(board, CPU))
    /\ (~HasEmpty(board) /\ (HasLine(board, HUMAN) \/ HasLine(board, CPU)))
         => \/ ret = HUMAN_WIN /\ HasLine(board, HUMAN)
            \/ ret = CPU_WIN /\ HasLine(board, CPU)
    /\ (HasEmpty(board) /\ ~HasLine(board, HUMAN) /\ ~HasLine(board, CPU))
         => ret = ONGOING

\* C10 witnesses: a full board reported as TIE
C10_Witness ==
  /\ pc = "returned"
  /\ ret = TIE
  /\ ~HasEmpty(board)

----------------------------------------------------------------------------
\* the stack after the frame on top has gone through one more iteration
\* of its loop
NextIteration(s) ==
  /\ Len(s) = Len(stack)
  /\ s[Len(s)].at = "loop"
  /\ s[Len(s)].k = Cur.k + 1

\* C5: a step of the search changes the board only by a frame placing its
\* mark on the empty cell of its current move, or by the same frame
\* clearing that cell again, once, straight after a cache hit or after the
\* recursive call has come back, before it goes on to its next move; a
\* frame returns only with no placement outstanding, and the board then has
\* the contents it had when the call started (depth 1 or deeper).
C5_Step ==
  Searching =>
    LET n == Len(stack)
        i == Cur.moves[Cur.k][1]
        j == Cur.moves[Cur.k][2]
    IN  /\ Len(stack') < n =>
             /\ Cur.at \in {"enter", "loop"}
             /\ board = Cur.board0
             /\ board' = board
        /\ Len(stack') > n => board' = board
        /\ board' # board =>
             \/ /\ Cur.at = "loop"
                /\ Len(stack') = n /\ stack'[n].at = "placed"
                /\ stack'[n].k = Cur.k
                /\ board[i][j] = None
                /\ board' = [board EXCEPT ![i][j] = Cur.player]
             \/ /\ Cur.at \in {"placed", "back"}
                /\ NextIteration(stack')
                /\ board[i][j] = Cur.player
                /\ board' = [board EXCEPT ![i][j] = None]
        /\ (Cur.at \in {"placed", "back"} /\ Len(stack') = n
              /\ stack'[n].at = "loop") =>
             /\ board[i][j] = Cur.player
             /\ board' = [board EXCEPT ![i][j] = None]
C5_Paired == [][C5_Step]_vars

\* C5 witness: a frame below depth 1 is about to return; its loop made
\* placements on the cache-hit branch and on the cache-miss branch, the
\* last clear is done and the board is the one the call started with.
C5_Witness ==
  /\ Searching
  /\ Cur.depth > 1
  /\ Cur.at = "loop"
  /\ Cur.k > Len(Cur.moves)
  /\ Cur.taken = {"memo", "call"}
  /\ call.op = "null_tile"
  /\ board = Cur.board0

\* C9: on the driver's boards and on every trial position of the search
\* there is never a complete human line together with a complete CPU line,
\* so whichever complete line the checks meet first, the status is the one
\* get_status returns.
C9_OneWinner ==
  /\ ~(HasLine(board, HUMAN) /\ HasLine(board, CPU))
  /\ \A k \in decided(Lines(board)) :
       get_status(board) =
         IF map_sum(Lines(board)[k]) = 3 THEN HUMAN_WIN ELSE CPU_WIN

\* C9 witness: a trial position of the search in which two lines are
\* complete at once
C9_Witness ==
  /\ Searching
  /\ Cardinality(decided(Lines(board))) >= 2

\* C11: below depth 1 a call on a decided board returns 100/depth for
\* CPU_WIN, -100/depth for HUMAN_WIN and 0 for TIE, whoever the mover is
\* and whatever the cache holds under the board's key, and leaves board and
\* cache as they were; the same CPU win one level deeper scores strictly
\* less, the same human win one level deeper strictly more.
C11_Step ==
  (pc = "call" /\ pc' = "returned") =>
    LET depth == Cur.depth
        status == get_status(board)
        deeper == minimax(board, memo, depth + 1, Cur.player).ret
    IN  /\ board' = board
        /\ memo' = memo
        /\ call' = call
        /\ status = CPU_WIN =>
             /\ ret' * depth = 100 * 27720
             /\ ret' > deeper /\ deeper > 0
        /\ status = HUMAN_WIN =>
             /\ ret' * depth = -100 * 27720
             /\ ret' < deeper /\ deeper < 0
        /\ status = TIE => ret' = 0 /\ deeper = 0
C11_TerminalScore == [][C11_Step]_vars

\* C11 witness: a human win with empty cells left, returned at depth 2 to a
\* caller whose cache has an entry for that very board
C11_Witness ==
  /\ pc = "returned"
  /\ Cur.depth = 2
  /\ get_status(board) = HUMAN_WIN
  /\ HasEmpty(board)
  /\ memo # EmptyMemo
  /\ ret * 2 = -100 * 27720

\* b and b2 hold the same value in each of the nine cells
SameCells(b, b2) == \A i \in Idx, j \in Idx : b[i][j] = b2[i][j]

\* C12: the board at the time of the store and the board now, reached from
\* it by any further set_tile and null_tile calls, have equal keys exactly
\* when their nine cells are equal, and in that case the lookup
\* (im_key in memo, memo[im_key]) finds the score stored; when the cells
\* differ the lookup misses.
C12_KeyOfContents ==
  memo # EmptyMemo =>
    LET im_key == to_immutable_key(board)
    IN  /\ (im_key = to_immutable_key(top.board0))
             <=> SameCells(board, top.board0)
        /\ (im_key \in DOMAIN memo) <=> SameCells(board, top.board0)
        /\ im_key \in DOMAIN memo => memo[im_key] = top.maximum

\* C12 witness: after the store the board went through other contents (the
\* last call was refused on an occupied cell) and holds again, with both
\* marks on it, what it held at the store
C12_Witness ==
  /\ memo # EmptyMemo
  /\ SameCells(board, top.board0)
  /\ Count(board, HUMAN) = 1 /\ Count(board, CPU) = 1
  /\ ret = FALSE

\* minimax with memoization removed: lines 201-206 replaced by their else
\* branch without the store, result = minimax(board, depth+1, other player)
RECURSIVE uncached(_, _, _)
RECURSIVE uncached_loop(_, _, _, _, _, _)
uncached_loop(b, depth, player, moves, k, acc) ==
  IF k > Len(moves)
    THEN acc
    ELSE LET result == uncached(
                         set_tile(b, moves[k][1], moves[k][2], player).board,
                         depth + 1, NextPlayer(player))
         IN  IF Improves(player, result, acc)
               THEN uncached_loop(b, depth, player, moves, k + 1, result)
               ELSE uncached_loop(b, depth, player, moves, k + 1, acc)
uncached(b, depth, player) ==
  LET status == get_status(b)
  IN  IF status \in {HUMAN_WIN, CPU_WIN, TIE}
        THEN terminal_value(status, depth)
        ELSE uncached_loop(b, depth, player, get_valid_moves(b), 1,
                           Start(player))

\* C13 as stated: in a frame below depth 1, the value taken for the trial
\* position on the board, from the cache (the key is in memo) or from the
\* recursive call that has just returned, is the value minimax without
\* memoization returns for that position at depth+1 for the other player.
C13_UsedValueIsUncached ==
  (Searching /\ Cur.depth > 1) =>
    LET im_key == to_immutable_key(board)
        fresh == uncached(board, Cur.depth + 1, NextPlayer(Cur.player))
    IN  /\ (Cur.at = "placed" /\ im_key \in DOMAIN memo) =>
             memo[im_key] = fresh
        /\ Cur.at = "back" => Cur.result = fresh

\* the depth-1 loop of minimax over the scores without memoization
RECURSIVE uncached_top(_, _, _, _, _)
uncached_top(b, moves, k, maximum, move) ==
  IF k > Len(moves)
    THEN [move |-> move, maximum |-> maximum]
    ELSE LET val == uncached(
                      set_tile(b, moves[k][1], moves[k][2], CPU).board,
                      2, HUMAN)
         IN  IF Better(val, maximum)
               THEN uncached_top(b, moves, k + 1, val, moves[k])
               ELSE uncached_top(b, moves, k + 1, maximum, move)
uncached_minimax(b) == uncached_top(b, get_valid_moves(b), 1, NegInf, NoMove)

\* C14: at every CPU turn of the driver the move minimax(board, 1, CPU)
\* returns, with the cache as all earlier turns of the game left it, is the
\* move the search returns with memoization removed.
C14_SameMove ==
  pc = "place" => top.move = uncached_minimax(top.board0).move

\* C14 witness: a later CPU turn, the cache filled by the earlier ones, in
\* which the score of the move returned is not the score it has without
\* memoization, and yet the move is the same
C14_Witness ==
  /\ pc = "place"
  /\ top.memo0 # EmptyMemo
  /\ top.move # NoMove
  /\ top.move = uncached_minimax(top.board0).move
  /\ top.maximum # uncached_minimax(top.board0).maximum

\* C15: a step leaves the cache as it is, or it is the store after a
\* recursive call of a frame below depth 1, which adds one entry under a
\* key that was not in the cache (the key of the trial position, with the
\* value returned) and keeps every other entry; a search taken as one step
\* keeps every entry it found, with its value.
C15_Step ==
  \/ memo' = memo
  \/ /\ Searching
     /\ Cur.at = "back"
     /\ Cur.depth > 1
     /\ to_immutable_key(board) \notin DOMAIN memo
     /\ memo' = (to_immutable_key(board) :> Cur.result) @@ memo
  \/ /\ pc = "cpu"
     /\ pc' = "place"
     /\ \A key \in DOMAIN memo : key \in DOMAIN memo' /\ memo'[key] = memo[key]
C15_OnlyGrows == [][C15_Step]_vars

\* C15 witness: in a later search of the game a frame has just taken a
\* value from the cache that an earlier search filled, and the cache is
\* still what that search left
C15_Witness ==
  /\ Searching
  /\ top.memo0 # EmptyMemo
  /\ memo = top.memo0
  /\ Cur.at = "loop"
  /\ "memo" \in Cur.taken
  /\ call.op = "null_tile"
  /\ call.key \in DOMAIN memo
  /\ memo[call.key] = Cur.result

\* C16: no step of the depth-1 frame changes the cache; with its candidate
\* placed its next step is the recursive call at depth 2 for the human,
\* whether or not the key of the candidate position is in the cache; every
\* value stored is the integer-scaled score a frame below depth 1 received;
\* a search taken as one step leaves only numbers in the cache and adds no
\* entry under the key of a candidate position.
C16_Step ==
  /\ (Searching /\ Cur.depth = 1) =>
       /\ memo' = memo
       /\ Cur.at = "placed" =>
            /\ Len(stack') = 2
            /\ stack'[1] = [Cur EXCEPT !.at = "wait"]
            /\ stack'[2] = Frame(2, HUMAN, board)
  /\ (Searching /\ memo' # memo) =>
       /\ Cur.depth > 1
       /\ memo'[to_immutable_key(board)] \in Int
  /\ (pc = "cpu" /\ pc' = "place") =>
       /\ \A key \in DOMAIN memo' : memo'[key] \in Int
       /\ \A k \in 1..Len(get_valid_moves(board)) :
            LET c == get_valid_moves(board)[k]
                im_key == to_immutable_key(set_tile(board, c[1], c[2],
                                                    CPU).board)
            IN  im_key \in DOMAIN memo' => im_key \in DOMAIN memo
C16_TopFrameNoCache == [][C16_Step]_vars

\* C16 witness: the depth-1 frame has made the recursive call for a
\* candidate position whose key is in the cache
C16_Witness ==
  /\ Searching
  /\ Len(stack) = 2
  /\ Cur.depth = 2
  /\ Cur.at = "enter"
  /\ stack[1].at = "wait"
  /\ to_immutable_key(board) \in DOMAIN memo

\* C17: the driver calls minimax(board, 1, CPU) only on a board with status
\* ONGOING; the call returns a move, never None, and the move is an empty
\* cell of the board; no set_tile of the driver is refused and the
\* unpacking of the move never fails.
C17_MoveIsEmptyCell ==
  /\ pc = "cpu" => get_status(board) = ONGOING
  /\ pc = "place" =>
       /\ get_status(top.board0) = ONGOING
       /\ board = top.board0
       /\ top.move # NoMove
       /\ \E k \in 1..Len(get_valid_moves(board)) :
            get_valid_moves(board)[k] = top.move
       /\ set_tile(board, top.move[1], top.move[2], CPU).ret = TRUE
  /\ pc # "TypeError"
  /\ ret = TRUE

\* C17 witness: the CPU has placed its fourth mark, on the cell the search
\* returned for a board with two empty cells
C17_Witness ==
  /\ pc = "loop"
  /\ call.op = "set_tile"
  /\ call.player = CPU
  /\ ret = TRUE
  /\ <<call.i, call.j>> = top.move
  /\ Marks(board) = 8
  /\ board[call.i][call.j] = CPU

\* C18: on every board of the driver loop and on every trial position of
\* the search, the number of human marks minus the number of CPU marks is
\* 0 or 1.
C18_CountsAlternate ==
  LET human == Cardinality({c \in Idx \X Idx : board[c[1]][c[2]] = HUMAN})
      cpu == Cardinality({c \in Idx \X Idx : board[c[1]][c[2]] = CPU})
  IN  human - cpu \in {0, 1}

\* C18 witness: a trial position of the search with all nine cells
\* occupied, five by the human and four by the CPU, placed by a frame at
\* depth 8
C18_Witness ==
  /\ Searching
  /\ Cur.at = "placed"
  /\ Cur.depth = 8
  /\ Marks(board) = 9
  /\ Count(board, HUMAN) = 5
  /\ Count(board, CPU) = 4

\* C19: every game reaches the end of the driver loop with a status other
\* than ONGOING; the marks the driver has put on the board are at most five
\* human and four CPU ones; at no time are more than 10 calls of minimax
\* active, and no call has a depth above 10.
C19_Terminates ==
  /\ <>(pc = "end" /\ get_status(board) # ONGOING)
  /\ [](pc # "search" =>
          /\ Count(board, HUMAN) <= 5
          /\ Count(board, CPU) <= 4
          /\ stack = <<>>)
  /\ [](Len(stack) <= 10 /\ \A n \in 1..Len(stack) : stack[n].depth = n)

\* C19 witness: a game that has left the loop after nine placements, five
\* by the human and four by the CPU
C19_Witness ==
  /\ pc = "end"
  /\ get_status(board) # ONGOING
  /\ Count(board, HUMAN) = 5
  /\ Count(board, CPU) = 4
  /\ stack = <<>>

\* C20: map_sum applied to a line that contains at least one empty cell
\* (for example ["X", None, "X"]) returns the sentinel value 100, and
\* applied to a line of three human marks returns 3.
C20_Sentinel ==
  (pc = "summed" /\ Len(call.iterable) = 3) =>
    /\ (\E n \in 1..3 : call.iterable[n] = None) => ret = 100
    /\ (\A n \in 1..3 : call.iterable[n] = HUMAN) => ret = 3

====
